---- MODULE Spec2Model ----
(***************************************************************************)
(* The standard library of the expression engine (package expressionstcl, *)
(* stdlib.go): the table of built-in functions, the cast helpers and the   *)
(* standard-library machine.  One call is one behaviour: Init draws the    *)
(* arguments (or the expression handed to a cast helper), one action per   *)
(* table entry or helper applies it and records what it returned.          *)
(*                                                                         *)
(* Text is a sequence of byte codes (Go strings are byte strings), so that *)
(* splitting, joining, printing and parsing are computed and not assumed.  *)
(***************************************************************************)
EXTENDS Integers, Sequences, FiniteSets, TLC

VARIABLES args, expr, called, out, fnName, fnValue, handled, invoked

vars == <<args, expr, called, out, fnName, fnValue, handled, invoked>>

---------------------------------------------------------------------------
(* Bounds of the model. *)

MaxArgs == 3
MaxLen == 3
MaxChunk == 4

---------------------------------------------------------------------------
(* Static values.  One record shape for every kind, so that any two values *)
(* can be compared: kind names the payload, the other fields are zero.     *)
(*   none | bool (b) | int (n) | float (n = twice the number) |            *)
(*   string (s, bytes) | slice (l) | map (m, entries sorted by key) |      *)
(*   extern (a payload produced by a third-party library)                  *)

MkValue(k, b, n, s, l, m) ==
    [kind |-> k, b |-> b, n |-> n, s |-> s, l |-> l, m |-> m]

None == MkValue("none", FALSE, 0, <<>>, <<>>, <<>>)
BoolV(b) == MkValue("bool", b, 0, <<>>, <<>>, <<>>)
IntV(n) == MkValue("int", FALSE, n, <<>>, <<>>, <<>>)
FloatV(h) == MkValue("float", FALSE, h, <<>>, <<>>, <<>>)
StrV(s) == MkValue("string", FALSE, 0, s, <<>>, <<>>)
ListV(l) == MkValue("slice", FALSE, 0, <<>>, l, <<>>)
MapV(m) == MkValue("map", FALSE, 0, <<>>, <<>>, m)
Extern == MkValue("extern", FALSE, 0, <<>>, <<>>, <<>>)

IsNone(v) == v.kind = "none"
IsSlice(v) == v.kind = "slice"
IsString(v) == v.kind = "string"
IsMap(v) == v.kind = "map"

---------------------------------------------------------------------------
(* Byte strings. *)

Txt_true == <<116, 114, 117, 101>>
Txt_false == <<102, 97, 108, 115, 101>>
Txt_null == <<110, 117, 108, 108>>
Txt_comma == <<44>>
Txt_list == <<108, 105, 115, 116>>
Txt_value == <<95, 46, 118, 97, 108, 117, 101>>
Txt_index == <<95, 46, 105, 110, 100, 101, 120>>
Txt_key == <<95, 46, 107, 101, 121>>

IsDigit(c) == c \in 48..57
IsNameByte(c) == c \in 97..122 \/ c = 95 \/ c = 46

RECURSIVE Digits(_)
Digits(n) ==
    IF n < 10 THEN <<48 + n>> ELSE Digits(n \div 10) \o <<48 + (n % 10)>>

IntText(n) == IF n < 0 THEN <<45>> \o Digits(-n) ELSE Digits(n)

\* a float is kept as twice its value: 3 is 1.5
FloatText(h) ==
    LET a == IF h < 0 THEN -h ELSE h
        sign == IF h < 0 THEN <<45>> ELSE <<>>
    IN  sign \o Digits(a \div 2) \o (IF a % 2 = 1 THEN <<46, 53>> ELSE <<>>)

RECURSIVE ParseNat(_, _)
ParseNat(s, acc) ==
    IF s = <<>> THEN acc ELSE ParseNat(Tail(s), 10 * acc + (Head(s) - 48))

AllDigits(s) == s # <<>> /\ \A i \in 1..Len(s) : IsDigit(s[i])

\* strconv-style decimal text to integer: ok is FALSE on malformed text
ParseInt(s) ==
    IF AllDigits(s) THEN [ok |-> TRUE, n |-> ParseNat(s, 0)]
    ELSE IF s # <<>> /\ Head(s) = 45 /\ AllDigits(Tail(s))
         THEN [ok |-> TRUE, n |-> -ParseNat(Tail(s), 0)]
         ELSE [ok |-> FALSE, n |-> 0]

\* strings.Index: the first position of sep in s, 0 when absent
Index(s, sep) ==
    LET hits == {i \in 1..(Len(s) - Len(sep) + 1) :
                    SubSeq(s, i, i + Len(sep) - 1) = sep}
    IN  IF hits = {} THEN 0 ELSE CHOOSE i \in hits : \A j \in hits : i <= j

\* strings.Split: an empty separator explodes s into its bytes
RECURSIVE Split(_, _)
Split(s, sep) ==
    IF sep = <<>>
    THEN [i \in 1..Len(s) |-> <<s[i]>>]
    ELSE LET pos == Index(s, sep)
         IN  IF pos = 0 THEN <<s>>
             ELSE <<SubSeq(s, 1, pos - 1)>>
                  \o Split(SubSeq(s, pos + Len(sep), Len(s)), sep)

\* strings.Join
RECURSIVE Join(_, _)
Join(elems, sep) ==
    IF elems = <<>> THEN <<>>
    ELSE IF Len(elems) = 1 THEN elems[1]
    ELSE elems[1] \o sep \o Join(Tail(elems), sep)

---------------------------------------------------------------------------
(* Conversions of the value model.  Each returns ok = FALSE when the kind  *)
(* cannot be read as the requested type; the payload is then the zero      *)
(* value, which is what a caller that discards the error goes on with.     *)

toString(v) ==
    CASE v.kind = "string" -> [ok |-> TRUE, s |-> v.s]
      [] v.kind = "none" -> [ok |-> TRUE, s |-> <<>>]
      [] v.kind = "int" -> [ok |-> TRUE, s |-> IntText(v.n)]
      [] v.kind = "float" -> [ok |-> TRUE, s |-> FloatText(v.n)]
      [] v.kind = "bool" ->
            [ok |-> TRUE, s |-> IF v.b THEN Txt_true ELSE Txt_false]
      [] OTHER -> [ok |-> FALSE, s |-> <<>>]

StringValue(v) == toString(v)

\* twice the number a text denotes: digits, optionally followed by .0 or .5
ParseFloat(s) ==
    LET n == Len(s)
        frac == IF n >= 3 /\ s[n - 1] = 46 /\ s[n] \in {48, 53}
                THEN [cut |-> n - 2, half |-> IF s[n] = 53 THEN 1 ELSE 0]
                ELSE [cut |-> n, half |-> 0]
        whole == ParseInt(SubSeq(s, 1, frac.cut))
        neg == s # <<>> /\ Head(s) = 45
    IN  IF whole.ok
        THEN [ok |-> TRUE,
              h |-> 2 * whole.n + (IF neg THEN -frac.half ELSE frac.half)]
        ELSE [ok |-> FALSE, h |-> 0]

\* a float that has a fractional part truncates toward zero
IntValue(v) ==
    CASE v.kind = "int" -> [ok |-> TRUE, n |-> v.n]
      [] v.kind = "float" ->
            [ok |-> TRUE,
             n |-> IF v.n < 0 THEN -((-v.n) \div 2) ELSE v.n \div 2]
      [] v.kind = "string" -> ParseInt(v.s)
      [] OTHER -> [ok |-> FALSE, n |-> 0]

FloatValue(v) ==
    CASE v.kind = "int" -> [ok |-> TRUE, h |-> 2 * v.n]
      [] v.kind = "float" -> [ok |-> TRUE, h |-> v.n]
      [] v.kind = "string" -> ParseFloat(v.s)
      [] OTHER -> [ok |-> FALSE, h |-> 0]

BoolValue(v) ==
    CASE v.kind = "bool" -> [ok |-> TRUE, b |-> v.b]
      [] v.kind = "string" /\ v.s = Txt_true -> [ok |-> TRUE, b |-> TRUE]
      [] v.kind = "string" /\ v.s = Txt_false -> [ok |-> TRUE, b |-> FALSE]
      [] OTHER -> [ok |-> FALSE, b |-> FALSE]

SliceValue(v) ==
    IF v.kind = "slice" THEN [ok |-> TRUE, l |-> v.l]
    ELSE [ok |-> FALSE, l |-> <<>>]

MapValue(v) ==
    IF v.kind = "map" THEN [ok |-> TRUE, m |-> v.m]
    ELSE [ok |-> FALSE, m |-> <<>>]

\* v[k] of a Go map: the entry stored under k, if any
HasKey(m, k) == \E i \in 1..Len(m) : m[i].k = k
Lookup(m, k) == m[CHOOSE i \in 1..Len(m) : m[i].k = k].v

---------------------------------------------------------------------------
(* Expressions: one record shape for every node.                           *)
(*   static (val) | ref (name) | call (name, args) | op (name, args) | nil *)

MkExpr(node, name, val, xs) ==
    [node |-> node, name |-> name, val |-> val, args |-> xs]

Nil == MkExpr("nil", <<>>, None, <<>>)
NewValue(v) == MkExpr("static", <<>>, v, <<>>)
newRef(name) == MkExpr("ref", name, None, <<>>)
newCall(name, xs) == MkExpr("call", name, None, xs)
newOp(name, l, r) == MkExpr("op", name, None, <<l, r>>)

\* Static() is non-nil exactly for a static node, and is then its value
IsStatic(e) == e.node = "static"

Name_string == <<115, 116, 114, 105, 110, 103>>
Name_list == <<108, 105, 115, 116>>
Name_join == <<106, 111, 105, 110>>
Name_split == <<115, 112, 108, 105, 116>>
Name_int == <<105, 110, 116>>
Name_bool == <<98, 111, 111, 108>>
Name_float == <<102, 108, 111, 97, 116>>
Name_tojson == <<116, 111, 106, 115, 111, 110>>
Name_json == <<106, 115, 111, 110>>
Name_toyaml == <<116, 111, 121, 97, 109, 108>>
Name_yaml == <<121, 97, 109, 108>>
Name_shellquote == <<115, 104, 101, 108, 108, 113, 117, 111, 116, 101>>
Name_shellargs == <<115, 104, 101, 108, 108, 97, 114, 103, 115>>
Name_trim == <<116, 114, 105, 109>>
Name_len == <<108, 101, 110>>
Name_floor == <<102, 108, 111, 111, 114>>
Name_ceil == <<99, 101, 105, 108>>
Name_round == <<114, 111, 117, 110, 100>>
Name_chunk == <<99, 104, 117, 110, 107>>
Name_at == <<97, 116>>
Name_map == <<109, 97, 112>>
Name_filter == <<102, 105, 108, 116, 101, 114>>
Name_eval == <<101, 118, 97, 108>>
Name_jq == <<106, 113>>

\* the names of the function table with the ReturnType each entry declares
stdFunctions ==
    { [name |-> Name_string, ReturnType |-> "string"],
      [name |-> Name_list, ReturnType |-> "unknown"],
      [name |-> Name_join, ReturnType |-> "string"],
      [name |-> Name_split, ReturnType |-> "unknown"],
      [name |-> Name_int, ReturnType |-> "int64"],
      [name |-> Name_bool, ReturnType |-> "bool"],
      [name |-> Name_float, ReturnType |-> "float64"],
      [name |-> Name_tojson, ReturnType |-> "string"],
      [name |-> Name_json, ReturnType |-> "unknown"],
      [name |-> Name_toyaml, ReturnType |-> "string"],
      [name |-> Name_yaml, ReturnType |-> "unknown"],
      [name |-> Name_shellquote, ReturnType |-> "string"],
      [name |-> Name_shellargs, ReturnType |-> "unknown"],
      [name |-> Name_trim, ReturnType |-> "string"],
      [name |-> Name_len, ReturnType |-> "int64"],
      [name |-> Name_floor, ReturnType |-> "int64"],
      [name |-> Name_ceil, ReturnType |-> "int64"],
      [name |-> Name_round, ReturnType |-> "int64"],
      [name |-> Name_chunk, ReturnType |-> "unknown"],
      [name |-> Name_at, ReturnType |-> "unknown"],
      [name |-> Name_map, ReturnType |-> "unknown"],
      [name |-> Name_filter, ReturnType |-> "unknown"],
      [name |-> Name_eval, ReturnType |-> "unknown"],
      [name |-> Name_jq, ReturnType |-> "unknown"] }

IsStdFunction(name) == \E f \in stdFunctions : f.name = name

GetStdFunctionReturnType(name) ==
    IF IsStdFunction(name)
    THEN (CHOOSE f \in stdFunctions : f.name = name).ReturnType
    ELSE "unknown"

\* Type(): the best-effort static type of a node
Type(e) ==
    CASE e.node = "static" ->
            (CASE e.val.kind = "string" -> "string"
               [] e.val.kind = "int" -> "int64"
               [] e.val.kind = "float" -> "float64"
               [] e.val.kind = "bool" -> "bool"
               [] OTHER -> "unknown")
      [] e.node = "call" -> GetStdFunctionReturnType(e.name)
      [] OTHER -> "unknown"

\* NewStringValue: a static string holding the text of the payload
NewStringValue(v) == NewValue(StrV(toString(v).s))

---------------------------------------------------------------------------
(* Errors: kind names the failure, length and index are what an            *)
(* out-of-bounds message reports.  NoError is Go's nil error.              *)

MkError(kind, length, index) ==
    [kind |-> kind, length |-> length, index |-> index]

NoError == MkError("nil", 0, 0)
Errorf(kind) == MkError(kind, 0, 0)

\* what a handler returns: (Expression, error)
Return(e, err) == [val |-> e, err |-> err]
Ok(e) == Return(e, NoError)
Fail(err) == Return(Nil, err)

---------------------------------------------------------------------------
(* String(): the source form of a node.                                    *)

Quote(s) == <<34>> \o s \o <<34>>

RECURSIVE ValueText(_)
ValueText(v) ==
    CASE v.kind = "none" -> Txt_null
      [] v.kind = "bool" -> IF v.b THEN Txt_true ELSE Txt_false
      [] v.kind = "int" -> IntText(v.n)
      [] v.kind = "float" ->
            IF v.n % 2 = 0 THEN IntText(v.n \div 2) \o <<46, 48>>
            ELSE FloatText(v.n)
      [] v.kind = "string" -> Quote(v.s)
      [] v.kind = "slice" ->
            <<91>> \o Join([i \in 1..Len(v.l) |-> ValueText(v.l[i])],
                           Txt_comma) \o <<93>>
      [] OTHER -> <<63>>

RECURSIVE String(_)
String(e) ==
    CASE e.node = "static" -> ValueText(e.val)
      [] e.node = "ref" -> e.name
      [] e.node = "call" ->
            e.name \o <<40>>
            \o Join([i \in 1..Len(e.args) |-> String(e.args[i])], Txt_comma)
            \o <<41>>
      [] e.node = "op" ->
            LET side(x) == IF x.node = "op"
                           THEN <<40>> \o String(x) \o <<41>>
                           ELSE String(x)
            IN  side(e.args[1]) \o e.name \o side(e.args[2])
      [] OTHER -> <<>>

---------------------------------------------------------------------------
(* Compile: source text to tokens to a node.                               *)

Token(t, n, s) == [t |-> t, n |-> n, s |-> s]

Symbols == {40, 41, 44, 42, 62, 91, 93}

\* the length of the longest prefix of s whose bytes are all in the class
NumberLen(s) ==
    LET body(c) == IsDigit(c) \/ c = 46
        ks == {k \in 1..Len(s) : \A i \in 2..k : body(s[i])}
    IN  CHOOSE k \in ks : \A j \in ks : j <= k

NameLen(s) ==
    LET body(c) == IsNameByte(c) \/ IsDigit(c)
        ks == {k \in 1..Len(s) : \A i \in 2..k : body(s[i])}
    IN  CHOOSE k \in ks : \A j \in ks : j <= k

NumberToken(text) ==
    IF ParseInt(text).ok THEN Token("int", ParseInt(text).n, <<>>)
    ELSE IF ParseFloat(text).ok THEN Token("float", ParseFloat(text).h, <<>>)
    ELSE Token("bad", 0, text)

RECURSIVE Lex(_)
Lex(s) ==
    IF s = <<>> THEN <<>>
    ELSE LET c == Head(s)
             rest(k) == SubSeq(s, k + 1, Len(s))
         IN  CASE c = 32 -> Lex(Tail(s))
               [] IsDigit(c) \/ (c = 45 /\ Len(s) >= 2 /\ IsDigit(s[2])) ->
                     LET k == NumberLen(s)
                     IN  <<NumberToken(SubSeq(s, 1, k))>> \o Lex(rest(k))
               [] IsNameByte(c) /\ c # 46 ->
                     LET k == NameLen(s)
                     IN  <<Token("id", 0, SubSeq(s, 1, k))>> \o Lex(rest(k))
               [] c = 34 ->
                     LET k == Index(Tail(s), <<34>>)
                     IN  IF k = 0 THEN <<Token("bad", 0, s)>>
                         ELSE <<Token("str", 0, SubSeq(s, 2, k))>>
                              \o Lex(rest(k + 1))
               [] c \in Symbols -> <<Token("sym", 0, <<c>>)>> \o Lex(Tail(s))
               [] OTHER -> <<Token("bad", 0, s)>>

IsSym(ts, c) == ts # <<>> /\ Head(ts).t = "sym" /\ Head(ts).s = <<c>>

Parsed(e, rest) == [ok |-> TRUE, e |-> e, es |-> <<>>, rest |-> rest]
ParsedAll(es, rest) == [ok |-> TRUE, e |-> Nil, es |-> es, rest |-> rest]
NoParse == [ok |-> FALSE, e |-> Nil, es |-> <<>>, rest |-> <<>>]

\* The parser is one recursive operator over the grammar's rules:
\*   expr:    product [ > product ]
\*   product: atom { * atom }            (mul continues a product from left)
\*   atom:    literal | name | name ( args ) | ( expr ) | [ args ]
\*   args:    a comma-separated list of expr up to the closing symbol
RECURSIVE Parse(_, _, _, _, _)

Rule(rule, ts) == Parse(rule, ts, Nil, <<>>, 0)

Compared(l, r) ==
    IF r.ok THEN Parsed(newOp(<<62>>, l, r.e), r.rest) ELSE NoParse

Comparison(l) ==
    IF l.ok /\ IsSym(l.rest, 62)
    THEN Compared(l.e, Rule("product", Tail(l.rest)))
    ELSE l

Product(first) ==
    IF first.ok THEN Parse("mul", first.rest, first.e, <<>>, 0) ELSE NoParse

Multiplied(l, r) ==
    IF r.ok THEN Parse("mul", r.rest, newOp(<<42>>, l, r.e), <<>>, 0)
    ELSE NoParse

CallOf(name, a) ==
    IF a.ok THEN Parsed(newCall(name, a.es), a.rest) ELSE NoParse

Grouped(inner) ==
    IF inner.ok /\ IsSym(inner.rest, 41)
    THEN Parsed(inner.e, Tail(inner.rest))
    ELSE NoParse

ListOf(a) ==
    IF a.ok /\ \A i \in 1..Len(a.es) : IsStatic(a.es[i])
    THEN Parsed(NewValue(ListV([i \in 1..Len(a.es) |-> a.es[i].val])), a.rest)
    ELSE NoParse

Named(name, rest) ==
    CASE name = Txt_true -> Parsed(NewValue(BoolV(TRUE)), rest)
      [] name = Txt_false -> Parsed(NewValue(BoolV(FALSE)), rest)
      [] name = Txt_null -> Parsed(NewValue(None), rest)
      [] OTHER -> Parsed(newRef(name), rest)

Argument(x, acc, close) ==
    IF ~x.ok THEN NoParse
    ELSE IF IsSym(x.rest, 44)
    THEN Parse("args", Tail(x.rest), Nil, Append(acc, x.e), close)
    ELSE IF IsSym(x.rest, close)
    THEN ParsedAll(Append(acc, x.e), Tail(x.rest))
    ELSE NoParse

Atom(tk, ts) ==
    CASE tk.t = "int" -> Parsed(NewValue(IntV(tk.n)), Tail(ts))
      [] tk.t = "float" -> Parsed(NewValue(FloatV(tk.n)), Tail(ts))
      [] tk.t = "str" -> Parsed(NewValue(StrV(tk.s)), Tail(ts))
      [] tk.t = "id" ->
            IF IsSym(Tail(ts), 40)
            THEN CallOf(tk.s, Parse("args", Tail(Tail(ts)), Nil, <<>>, 41))
            ELSE Named(tk.s, Tail(ts))
      [] IsSym(ts, 40) -> Grouped(Rule("expr", Tail(ts)))
      [] IsSym(ts, 91) -> ListOf(Parse("args", Tail(ts), Nil, <<>>, 93))
      [] OTHER -> NoParse

Parse(rule, ts, left, acc, close) ==
    CASE rule = "expr" -> Comparison(Rule("product", ts))
      [] rule = "product" -> Product(Rule("atom", ts))
      [] rule = "mul" ->
            IF IsSym(ts, 42) THEN Multiplied(left, Rule("atom", Tail(ts)))
            ELSE Parsed(left, ts)
      [] rule = "atom" -> IF ts = <<>> THEN NoParse ELSE Atom(Head(ts), ts)
      [] rule = "args" ->
            IF acc = <<>> /\ IsSym(ts, close) THEN ParsedAll(acc, Tail(ts))
            ELSE Argument(Rule("expr", ts), acc, close)

Parsing(r) == IF r.ok /\ r.rest = <<>> THEN Ok(r.e) ELSE Fail(Errorf("parse"))

Tokens(ts) ==
    IF \E i \in 1..Len(ts) : ts[i].t = "bad" THEN Fail(Errorf("parse"))
    ELSE IF ts = <<>> THEN Ok(NewValue(StrV(<<>>)))
    ELSE Parsing(Rule("expr", ts))

\* Compile(source): (Expression, error); empty input is the empty string
Compile(src) == Tokens(Lex(src))

---------------------------------------------------------------------------
(* Machines and resolution.  A machine built by NewMachine().Register(...) *)
(* is its list of bindings; it answers Get for the registered names and    *)
(* handles no function call.                                               *)

NewMachine == <<>>
Register(machine, name, v) == Append(machine, [k |-> name, v |-> v])

\* the operators of the language, applied to static operands
ApplyOp(name, a, b) ==
    IF a.kind = "int" /\ b.kind = "int"
    THEN IF name = <<42>> THEN Ok(NewValue(IntV(a.n * b.n)))
         ELSE Ok(NewValue(BoolV(a.n > b.n)))
    ELSE Fail(Errorf("type"))

RECURSIVE Resolve(_, _)
Resolve(e, machine) ==
    LET rs == [i \in 1..Len(e.args) |-> Resolve(e.args[i], machine)]
        failed == {i \in 1..Len(e.args) : rs[i].err # NoError}
        es == [i \in 1..Len(e.args) |-> rs[i].val]
        allStatic == \A i \in 1..Len(e.args) : IsStatic(es[i])
    IN  CASE e.node = "ref" ->
                IF HasKey(machine, e.name)
                THEN Ok(NewValue(Lookup(machine, e.name)))
                ELSE Ok(e)
          [] e.node \in {"call", "op"} /\ failed # {} ->
                Fail(rs[CHOOSE i \in failed : \A j \in failed : i <= j].err)
          [] e.node = "call" ->
                IF allStatic THEN Fail(Errorf("lookup"))
                ELSE Ok(newCall(e.name, es))
          [] e.node = "op" ->
                IF allStatic THEN ApplyOp(e.name, es[1].val, es[2].val)
                ELSE Ok(newOp(e.name, es[1], es[2]))
          [] OTHER -> Ok(e)

---------------------------------------------------------------------------
(* The handlers of the function table.  value is the argument list; lib   *)
(* is the outcome of the third-party library a handler calls ("ok" or      *)
(* "fail"), whose payload is the opaque value Extern.                      *)

Handler_string(value) ==
    Ok(NewValue(StrV(
        Join([i \in 1..Len(value) |-> StringValue(value[i]).s], <<>>))))

Handler_list(value) == Ok(NewValue(ListV(value)))

\* join without the pass for none: none is refused like any non-sequence
Handler_join_RefusesNone(value) ==
    IF Len(value) = 0 \/ Len(value) > 2 THEN Fail(Errorf("arity"))
    ELSE IF ~IsSlice(value[1]) THEN Fail(Errorf("type"))
    ELSE IF ~SliceValue(value[1]).ok THEN Fail(Errorf("type"))
    ELSE LET slice == SliceValue(value[1]).l
             v == [i \in 1..Len(slice) |-> toString(slice[i]).s]
             separator == IF Len(value) = 2 THEN StringValue(value[2]).s
                          ELSE Txt_comma
         IN  Ok(NewValue(StrV(Join(v, separator))))

Handler_join(value) ==
    IF Len(value) = 0 \/ Len(value) > 2 THEN Fail(Errorf("arity"))
    ELSE IF IsNone(value[1]) THEN Ok(NewValue(value[1]))
    ELSE IF ~IsSlice(value[1]) THEN Fail(Errorf("type"))
    ELSE IF ~SliceValue(value[1]).ok THEN Fail(Errorf("type"))
    ELSE LET slice == SliceValue(value[1]).l
             v == [i \in 1..Len(slice) |-> toString(slice[i]).s]
             separator == IF Len(value) = 2 THEN StringValue(value[2]).s
                          ELSE Txt_comma
         IN  Ok(NewValue(StrV(Join(v, separator))))

\* split that always cuts at "," whatever separator is given
Handler_split_IgnoresSeparator(value) ==
    IF Len(value) = 0 \/ Len(value) > 2 THEN Fail(Errorf("arity"))
    ELSE LET str == StringValue(value[1]).s
             parts == Split(str, Txt_comma)
         IN  Ok(NewValue(ListV([i \in 1..Len(parts) |-> StrV(parts[i])])))

Handler_split(value) ==
    IF Len(value) = 0 \/ Len(value) > 2 THEN Fail(Errorf("arity"))
    ELSE LET str == StringValue(value[1]).s
             separator == IF Len(value) = 2 THEN StringValue(value[2]).s
                          ELSE Txt_comma
             parts == Split(str, separator)
         IN  Ok(NewValue(ListV([i \in 1..Len(parts) |-> StrV(parts[i])])))

Handler_int(value) ==
    IF Len(value) # 1 THEN Fail(Errorf("arity"))
    ELSE IF ~IntValue(value[1]).ok THEN Fail(Errorf("type"))
    ELSE Ok(NewValue(IntV(IntValue(value[1]).n)))

Handler_bool(value) ==
    IF Len(value) # 1 THEN Fail(Errorf("arity"))
    ELSE IF ~BoolValue(value[1]).ok THEN Fail(Errorf("type"))
    ELSE Ok(NewValue(BoolV(BoolValue(value[1]).b)))

Handler_float(value) ==
    IF Len(value) # 1 THEN Fail(Errorf("arity"))
    ELSE IF ~FloatValue(value[1]).ok THEN Fail(Errorf("type"))
    ELSE Ok(NewValue(FloatV(FloatValue(value[1]).h)))

Handler_tojson(value, lib) ==
    IF Len(value) # 1 THEN Fail(Errorf("arity"))
    ELSE IF lib # "ok" THEN Fail(Errorf("marshal"))
    ELSE Ok(NewValue(Extern))

Handler_json(value, lib) ==
    IF Len(value) # 1 THEN Fail(Errorf("arity"))
    ELSE IF ~IsString(value[1]) THEN Fail(Errorf("type"))
    ELSE IF lib # "ok" THEN Fail(Errorf("unmarshal"))
    ELSE Ok(NewValue(Extern))

Handler_toyaml(value, lib) ==
    IF Len(value) # 1 THEN Fail(Errorf("arity"))
    ELSE IF lib # "ok" THEN Fail(Errorf("marshal"))
    ELSE Ok(NewValue(Extern))

Handler_yaml(value, lib) ==
    IF Len(value) # 1 THEN Fail(Errorf("arity"))
    ELSE IF ~IsString(value[1]) THEN Fail(Errorf("type"))
    ELSE IF lib # "ok" THEN Fail(Errorf("unmarshal"))
    ELSE Ok(NewValue(Extern))

Handler_shellquote(value) == Ok(NewValue(Extern))

\* returns the words together with the tokenizer's error
Handler_shellargs(value, lib) ==
    IF Len(value) # 1 THEN Fail(Errorf("arity"))
    ELSE Return(NewValue(Extern),
                IF lib = "ok" THEN NoError ELSE Errorf("tokenize"))

IsSpace(c) == c \in {32, 9, 10, 11, 12, 13}

RECURSIVE TrimSpace(_)
TrimSpace(s) ==
    IF s = <<>> THEN s
    ELSE IF IsSpace(Head(s)) THEN TrimSpace(Tail(s))
    ELSE IF IsSpace(s[Len(s)]) THEN TrimSpace(SubSeq(s, 1, Len(s) - 1))
    ELSE s

Handler_trim(value) ==
    IF Len(value) # 1 THEN Fail(Errorf("arity"))
    ELSE IF ~IsString(value[1]) THEN Fail(Errorf("type"))
    ELSE Ok(NewValue(StrV(TrimSpace(StringValue(value[1]).s))))

Handler_len(value) ==
    IF Len(value) # 1 THEN Fail(Errorf("arity"))
    ELSE IF IsSlice(value[1])
    THEN Ok(NewValue(IntV(Len(SliceValue(value[1]).l))))
    ELSE IF IsString(value[1])
    THEN Ok(NewValue(IntV(Len(StringValue(value[1]).s))))
    ELSE IF IsMap(value[1])
    THEN Ok(NewValue(IntV(Len(MapValue(value[1]).m))))
    ELSE Fail(Errorf("type"))

Handler_floor(value) ==
    IF Len(value) # 1 THEN Fail(Errorf("arity"))
    ELSE IF ~FloatValue(value[1]).ok THEN Fail(Errorf("type"))
    ELSE Ok(NewValue(IntV(FloatValue(value[1]).h \div 2)))

Handler_ceil(value) ==
    IF Len(value) # 1 THEN Fail(Errorf("arity"))
    ELSE IF ~FloatValue(value[1]).ok THEN Fail(Errorf("type"))
    ELSE Ok(NewValue(IntV(-((-FloatValue(value[1]).h) \div 2))))

\* halves round away from zero
Handler_round(value) ==
    IF Len(value) # 1 THEN Fail(Errorf("arity"))
    ELSE IF ~FloatValue(value[1]).ok THEN Fail(Errorf("type"))
    ELSE LET f == FloatValue(value[1]).h
         IN  Ok(NewValue(IntV(IF f >= 0 THEN (f + 1) \div 2
                              ELSE -((1 - f) \div 2))))

\* the loop of chunk stopping before a last chunk that is short
RECURSIVE ChunkLoop_DropsShortChunk(_, _, _, _)
ChunkLoop_DropsShortChunk(list, size, i, chunks) ==
    IF i + size <= Len(list)
    THEN ChunkLoop_DropsShortChunk(list, size, i + size,
             Append(chunks, ListV(SubSeq(list, i + 1, i + size))))
    ELSE chunks

\* the loop of chunk: i counts from 0 in steps of size
RECURSIVE ChunkLoop(_, _, _, _)
ChunkLoop(list, size, i, chunks) ==
    LET l == Len(list)
        end == IF i + size > l THEN l ELSE i + size
    IN  IF i < l
        THEN ChunkLoop(list, size, i + size,
                       Append(chunks, ListV(SubSeq(list, i + 1, end))))
        ELSE chunks

\* chunk that checks only for too few arguments
Handler_chunk_AcceptsMore(value) ==
    IF Len(value) < 2 THEN Fail(Errorf("arity"))
    ELSE IF ~SliceValue(value[1]).ok THEN Fail(Errorf("type"))
    ELSE IF ~IntValue(value[2]).ok THEN Fail(Errorf("type"))
    ELSE IF IntValue(value[2]).n <= 0 THEN Fail(Errorf("size"))
    ELSE Ok(NewValue(ListV(
             ChunkLoop(SliceValue(value[1]).l, IntValue(value[2]).n,
                       0, <<>>))))

Handler_chunk(value) ==
    IF Len(value) # 2 THEN Fail(Errorf("arity"))
    ELSE IF ~SliceValue(value[1]).ok THEN Fail(Errorf("type"))
    ELSE IF ~IntValue(value[2]).ok THEN Fail(Errorf("type"))
    ELSE IF IntValue(value[2]).n <= 0 THEN Fail(Errorf("size"))
    ELSE Ok(NewValue(ListV(
             ChunkLoop(SliceValue(value[1]).l, IntValue(value[2]).n,
                       0, <<>>))))

\* at with the first element of a sequence out of reach (k > 0 for k >= 0)
Handler_at_SkipsFirst(value) ==
    IF Len(value) # 2 THEN Fail(Errorf("arity"))
    ELSE IF IsSlice(value[1])
    THEN LET v == SliceValue(value[1]).l
             k == IntValue(value[2])
         IN  IF ~k.ok THEN Fail(Errorf("type"))
             ELSE IF k.n > 0 /\ k.n < Len(v) THEN Ok(NewValue(v[k.n + 1]))
             ELSE Fail(MkError("bounds", Len(v), k.n))
    ELSE IF IsMap(value[1])
    THEN LET v == MapValue(value[1]).m
             k == StringValue(value[2]).s
         IN  IF HasKey(v, k) THEN Ok(NewValue(Lookup(v, k)))
             ELSE Ok(NewValue(None))
    ELSE IF IsString(value[1])
    THEN LET v == StringValue(value[1]).s
             k == IntValue(value[2])
         IN  IF ~k.ok THEN Fail(Errorf("type"))
             ELSE IF k.n >= 0 /\ k.n < Len(v)
             THEN Ok(NewValue(IntV(v[k.n + 1])))
             ELSE Fail(MkError("bounds", Len(v), k.n))
    ELSE Fail(Errorf("type"))

\* at with a missing key of a mapping treated like a missing index
Handler_at_MissingKeyFails(value) ==
    IF Len(value) # 2 THEN Fail(Errorf("arity"))
    ELSE IF IsSlice(value[1])
    THEN LET v == SliceValue(value[1]).l
             k == IntValue(value[2])
         IN  IF ~k.ok THEN Fail(Errorf("type"))
             ELSE IF k.n >= 0 /\ k.n < Len(v) THEN Ok(NewValue(v[k.n + 1]))
             ELSE Fail(MkError("bounds", Len(v), k.n))
    ELSE IF IsMap(value[1])
    THEN LET v == MapValue(value[1]).m
             k == StringValue(value[2]).s
         IN  IF HasKey(v, k) THEN Ok(NewValue(Lookup(v, k)))
             ELSE Fail(Errorf("lookup"))
    ELSE IF IsString(value[1])
    THEN LET v == StringValue(value[1]).s
             k == IntValue(value[2])
         IN  IF ~k.ok THEN Fail(Errorf("type"))
             ELSE IF k.n >= 0 /\ k.n < Len(v)
             THEN Ok(NewValue(IntV(v[k.n + 1])))
             ELSE Fail(MkError("bounds", Len(v), k.n))
    ELSE Fail(Errorf("type"))

Handler_at(value) ==
    IF Len(value) # 2 THEN Fail(Errorf("arity"))
    ELSE IF IsSlice(value[1])
    THEN LET v == SliceValue(value[1]).l
             k == IntValue(value[2])
         IN  IF ~k.ok THEN Fail(Errorf("type"))
             ELSE IF k.n >= 0 /\ k.n < Len(v) THEN Ok(NewValue(v[k.n + 1]))
             ELSE Fail(MkError("bounds", Len(v), k.n))
    ELSE IF IsMap(value[1])
    THEN LET v == MapValue(value[1]).m
             k == StringValue(value[2]).s
         IN  IF HasKey(v, k) THEN Ok(NewValue(Lookup(v, k)))
             ELSE Ok(NewValue(None))
    ELSE IF IsString(value[1])
    THEN LET v == StringValue(value[1]).s
             k == IntValue(value[2])
         IN  IF ~k.ok THEN Fail(Errorf("type"))
             ELSE IF k.n >= 0 /\ k.n < Len(v)
             THEN Ok(NewValue(IntV(v[k.n + 1])))
             ELSE Fail(MkError("bounds", Len(v), k.n))
    ELSE Fail(Errorf("type"))

\* the machine of one iteration with positions counted from 1
IterationMachine_CountsFromOne(list, i) ==
    Register(Register(Register(NewMachine, Txt_value, list[i + 1]),
                      Txt_index, IntV(i + 1)), Txt_key, IntV(i + 1))

\* the machine of one iteration: _.value, _.index and _.key of element i
IterationMachine(list, i) ==
    Register(Register(Register(NewMachine, Txt_value, list[i + 1]),
                      Txt_index, IntV(i)), Txt_key, IntV(i))

\* the loop of map: i counts from 0, result holds the texts so far
RECURSIVE MapLoop(_, _, _, _)
MapLoop(list, e, i, result) ==
    IF i < Len(list)
    THEN LET ex == Compile(String(e)).val
             v == Resolve(ex, IterationMachine(list, i))
         IN  IF v.err # NoError THEN Fail(Errorf("resolve"))
             ELSE MapLoop(list, e, i + 1, Append(result, String(v.val)))
    ELSE Compile(Txt_list \o <<40>> \o Join(result, Txt_comma) \o <<41>>)

Handler_map(value) ==
    IF Len(value) # 2 THEN Fail(Errorf("arity"))
    ELSE IF ~SliceValue(value[1]).ok THEN Fail(Errorf("type"))
    ELSE LET compiled == Compile(StringValue(value[2]).s)
         IN  IF compiled.err # NoError THEN Fail(Errorf("compile"))
             ELSE MapLoop(SliceValue(value[1]).l, compiled.val, 0, <<>>)

\* the loop of filter dropping an element whose predicate stays unresolved
RECURSIVE FilterLoop_SkipsUnresolved(_, _, _, _)
FilterLoop_SkipsUnresolved(list, e, i, result) ==
    IF i < Len(list)
    THEN LET ex == Compile(String(e)).val
             v == Resolve(ex, IterationMachine(list, i))
         IN  IF v.err # NoError THEN Fail(Errorf("resolve"))
             ELSE IF ~IsStatic(v.val)
             THEN FilterLoop_SkipsUnresolved(list, e, i + 1, result)
             ELSE IF ~BoolValue(v.val.val).ok THEN Fail(Errorf("notbool"))
             ELSE FilterLoop_SkipsUnresolved(list, e, i + 1,
                             IF BoolValue(v.val.val).b
                             THEN Append(result, list[i + 1])
                             ELSE result)
    ELSE Ok(NewValue(ListV(result)))

\* the loop of filter: result holds the elements kept so far
RECURSIVE FilterLoop(_, _, _, _)
FilterLoop(list, e, i, result) ==
    IF i < Len(list)
    THEN LET ex == Compile(String(e)).val
             v == Resolve(ex, IterationMachine(list, i))
         IN  IF v.err # NoError THEN Fail(Errorf("resolve"))
             ELSE IF ~IsStatic(v.val) THEN Fail(Errorf("unresolved"))
             ELSE IF ~BoolValue(v.val.val).ok THEN Fail(Errorf("notbool"))
             ELSE FilterLoop(list, e, i + 1,
                             IF BoolValue(v.val.val).b
                             THEN Append(result, list[i + 1])
                             ELSE result)
    ELSE Ok(NewValue(ListV(result)))

Handler_filter(value) ==
    IF Len(value) # 2 THEN Fail(Errorf("arity"))
    ELSE IF ~SliceValue(value[1]).ok THEN Fail(Errorf("type"))
    ELSE LET compiled == Compile(StringValue(value[2]).s)
         IN  IF compiled.err # NoError THEN Fail(Errorf("compile"))
             ELSE FilterLoop(SliceValue(value[1]).l, compiled.val, 0, <<>>)

Handler_eval(value) ==
    IF Len(value) # 1 THEN Fail(Errorf("arity"))
    ELSE LET compiled == Compile(StringValue(value[1]).s)
         IN  IF compiled.err # NoError THEN Fail(Errorf("compile"))
             ELSE Ok(compiled.val)

Handler_jq(value, lib) ==
    IF Len(value) # 2 THEN Fail(Errorf("arity"))
    ELSE IF lib # "ok" THEN Fail(Errorf("query"))
    ELSE Ok(NewValue(Extern))

---------------------------------------------------------------------------
(* The cast helpers. *)

stringCastStdFn == Name_string
boolCastStdFn == Name_bool
intCastStdFn == Name_int
floatCastStdFn == Name_float

CastToString(v) ==
    IF IsStatic(v) THEN NewStringValue(v.val)
    ELSE IF Type(v) = "string" THEN v
    ELSE newCall(stringCastStdFn, <<v>>)

CastToBool(v) ==
    IF Type(v) = "bool" THEN v ELSE newCall(boolCastStdFn, <<v>>)

CastToInt(v) ==
    IF Type(v) = "int64" THEN v ELSE newCall(intCastStdFn, <<v>>)

CastToFloat(v) ==
    IF Type(v) = "float64" THEN v ELSE newCall(intCastStdFn, <<v>>)

---------------------------------------------------------------------------
(* Calls by name: the standard-library machine and CallStdFunction.        *)

\* stdFunctions[name].Handler(value...)
Handler(fn, v, lib) ==
    CASE fn = Name_string -> Handler_string(v)
      [] fn = Name_list -> Handler_list(v)
      [] fn = Name_join -> Handler_join(v)
      [] fn = Name_split -> Handler_split(v)
      [] fn = Name_int -> Handler_int(v)
      [] fn = Name_bool -> Handler_bool(v)
      [] fn = Name_float -> Handler_float(v)
      [] fn = Name_tojson -> Handler_tojson(v, lib)
      [] fn = Name_json -> Handler_json(v, lib)
      [] fn = Name_toyaml -> Handler_toyaml(v, lib)
      [] fn = Name_yaml -> Handler_yaml(v, lib)
      [] fn = Name_shellquote -> Handler_shellquote(v)
      [] fn = Name_shellargs -> Handler_shellargs(v, lib)
      [] fn = Name_trim -> Handler_trim(v)
      [] fn = Name_len -> Handler_len(v)
      [] fn = Name_floor -> Handler_floor(v)
      [] fn = Name_ceil -> Handler_ceil(v)
      [] fn = Name_round -> Handler_round(v)
      [] fn = Name_chunk -> Handler_chunk(v)
      [] fn = Name_at -> Handler_at(v)
      [] fn = Name_map -> Handler_map(v)
      [] fn = Name_filter -> Handler_filter(v)
      [] fn = Name_eval -> Handler_eval(v)
      [] OTHER -> Handler_jq(v, lib)

\* what a machine returns: (Expression, bool, error)
Answer(e, ok, err) == [val |-> e, ok |-> ok, err |-> err]

\* stdMachine.Get knows no name
stdMachine_Get(fn) == Answer(Nil, FALSE, NoError)

\* stdMachine.Call answers true for the names of the table only
stdMachine_Call(fn, v, lib) ==
    IF IsStdFunction(fn)
    THEN Answer(Handler(fn, v, lib).val, TRUE, Handler(fn, v, lib).err)
    ELSE Answer(Nil, FALSE, NoError)

\* One argument of CallStdFunction (an interface{}): a StaticValue, an
\* Expression that is not one, or a bare payload.
Item(form, v, e) == [form |-> form, v |-> v, e |-> e]

\* the loop of CallStdFunction: r holds the static values so far
RECURSIVE Statics(_, _)
Statics(items, r) ==
    IF items = <<>> THEN [ok |-> TRUE, r |-> r]
    ELSE CASE Head(items).form = "static" ->
                 Statics(Tail(items), Append(r, Head(items).v))
           [] Head(items).form = "expr" -> [ok |-> FALSE, r |-> <<>>]
           [] OTHER -> Statics(Tail(items), Append(r, Head(items).v))

\* CallStdFunction taking an expression for a payload like any other
CallStdFunction_WrapsExpressions(fn, items, lib) ==
    IF ~IsStdFunction(fn)
    THEN [ret |-> Fail(Errorf("lookup")), invoked |-> FALSE]
    ELSE [ret |-> Handler(fn, [i \in 1..Len(items) |-> items[i].v], lib),
          invoked |-> TRUE]

\* ret is what is returned, invoked whether fn.Handler was reached
CallStdFunction(fn, items, lib) ==
    IF ~IsStdFunction(fn)
    THEN [ret |-> Fail(Errorf("lookup")), invoked |-> FALSE]
    ELSE IF ~Statics(items, <<>>).ok
    THEN [ret |-> Fail(Errorf("static")), invoked |-> FALSE]
    ELSE [ret |-> Handler(fn, Statics(items, <<>>).r, lib),
          invoked |-> TRUE]

---------------------------------------------------------------------------
(* The inputs of one call. *)

SeqsUpTo(S, n) == UNION {[1..k -> S] : k \in 0..n}

Txt_a == <<97>>
Txt_b == <<98>>
Name_x == <<120>>
Name_f == <<102>>

\* one value of every kind
Samples ==
    { None, BoolV(TRUE), IntV(2), FloatV(3), StrV(<<97, 44, 98>>),
      ListV(<<IntV(1), IntV(2)>>), MapV(<<[k |-> Txt_a, v |-> IntV(1)]>>) }

Lists == {ListV(l) : l \in SeqsUpTo({IntV(1), StrV(Txt_a)}, MaxLen)}

\* 1..n as a list, for n up to two more than MaxLen
Iota == {ListV([i \in 1..n |-> IntV(i)]) : n \in 0..(MaxLen + 2)}

Strings == {StrV(s) : s \in SeqsUpTo({97, 44}, MaxLen)}

Separators == {StrV(<<>>), StrV(<<44>>), StrV(<<97>>), StrV(<<44, 97>>),
               StrV(<<44, 44>>)}

Maps ==
    { MapV(<<>>),
      MapV(<<[k |-> Txt_a, v |-> IntV(1)]>>),
      MapV(<<[k |-> Txt_a, v |-> None], [k |-> Txt_b, v |-> IntV(2)]>>) }

Keys == {IntV(k) : k \in (-1)..(MaxLen + 1)} \cup {StrV(Txt_a), StrV(Txt_b)}

Sizes == {IntV(n) : n \in (-1)..MaxChunk}

Src_double == <<95, 46, 118, 97, 108, 117, 101, 32, 42, 32, 50>>
Src_greater == <<95, 46, 118, 97, 108, 117, 101, 32, 62, 32, 49>>
Src_index == <<95, 46, 105, 110, 100, 101, 120>>
Src_keyIndex ==
    <<95, 46, 107, 101, 121, 32, 42, 32, 95, 46, 105, 110, 100, 101, 120>>
Src_value == <<95, 46, 118, 97, 108, 117, 101>>
Src_free == <<120>>
Src_partial == <<120, 32, 42, 32, 95, 46, 118, 97, 108, 117, 101>>
Src_unknownCall == <<102, 40, 95, 46, 118, 97, 108, 117, 101, 41>>
Src_pendingCall == <<102, 40, 120, 41>>
Src_broken == <<95, 46, 118, 97, 108, 117, 101, 32, 42>>
Src_nested ==
    <<40, 95, 46, 118, 97, 108, 117, 101, 32, 42, 32, 50, 41, 32, 62, 32,
      95, 46, 105, 110, 100, 101, 120>>

Src_nestedPartial ==
    <<40, 120, 32, 42, 32, 50, 41, 32, 62, 32, 95, 46, 105, 110, 100, 101, 120>>

\* _.value * 2, _.value > 1, _.index, _.key * _.index, _.value, x,
\* x * _.value, f(_.value), f(x), "_.value *", (_.value * 2) > _.index
\* and (x * 2) > _.index
Sources ==
    { Src_double, Src_greater, Src_index, Src_keyIndex, Src_value, Src_free,
      Src_partial, Src_unknownCall, Src_pendingCall, Src_broken, Src_nested,
      Src_nestedPartial }

IterLists ==
    {ListV(l) : l \in SeqsUpTo({IntV(1), IntV(3), StrV(Txt_true)}, MaxLen)}

ArgLists ==
    SeqsUpTo(Samples, MaxArgs)
    \cup {<<c, k>> : c \in Lists \cup Strings \cup Maps, k \in Keys}
    \cup {<<l, n>> : l \in Lists \cup Iota, n \in Sizes}
    \cup {<<s>> : s \in Strings \cup Lists}
    \cup {<<s, sep>> : s \in Strings \cup Lists, sep \in Separators}
    \cup {<<l, StrV(src)>> : l \in IterLists, src \in Sources}

\* the expressions handed to the cast helpers
CastExprs ==
    { NewValue(StrV(Txt_a)), NewValue(IntV(1)), NewValue(FloatV(3)),
      NewValue(BoolV(TRUE)), NewValue(None),
      NewValue(ListV(<<IntV(1), IntV(2)>>)),
      newRef(Name_x),
      newCall(Name_string, <<newRef(Name_x)>>),
      newCall(Name_int, <<newRef(Name_x)>>),
      newCall(Name_float, <<newRef(Name_x)>>),
      newCall(Name_bool, <<newRef(Name_x)>>),
      newCall(Name_list, <<newRef(Name_x)>>),
      newCall(Name_f, <<newRef(Name_x)>>),
      newOp(<<62>>, newRef(Name_x), NewValue(IntV(1))) }

\* the names asked of the machine: the table's, and two it does not hold
TableNames == {f.name : f \in stdFunctions}
Names == TableNames \cup {Name_x, Name_f}

\* the names handed to CallStdFunction
DirectNames ==
    {Name_string, Name_join, Name_at, Name_chunk, Name_tojson, Name_map,
     Name_x, Name_f}

\* the arguments as CallStdFunction may receive them: all static values or
\* all bare payloads, with an unresolved expression at position bad, if any
Items(vs, form, bad) ==
    [i \in 1..Len(vs) |->
        IF i = bad THEN Item("expr", None, newRef(Name_x))
        ELSE Item(form, vs[i], NewValue(vs[i]))]

LibOutcomes == {"ok", "fail"}

---------------------------------------------------------------------------
(* The state machine: called is "" until the call is made. *)

Init ==
    /\ called = ""
    /\ out = Ok(Nil)
    /\ fnName = <<>> /\ fnValue = <<>>
    /\ handled = FALSE /\ invoked = FALSE
    /\ \/ args \in ArgLists /\ expr = Nil
       \/ args = <<>> /\ expr \in CastExprs

\* One action per entry of the function table: the handler is called with the
\* arguments and what it returns is recorded.

Call_string ==
    /\ called = "" /\ expr = Nil
    /\ called' = "string"
    /\ out' = Handler_string(args)
    /\ UNCHANGED <<args, expr, fnName, fnValue, handled, invoked>>

Call_list ==
    /\ called = "" /\ expr = Nil
    /\ called' = "list"
    /\ out' = Handler_list(args)
    /\ UNCHANGED <<args, expr, fnName, fnValue, handled, invoked>>

Call_join ==
    /\ called = "" /\ expr = Nil
    /\ called' = "join"
    /\ out' = Handler_join(args)
    /\ UNCHANGED <<args, expr, fnName, fnValue, handled, invoked>>

Call_split ==
    /\ called = "" /\ expr = Nil
    /\ called' = "split"
    /\ out' = Handler_split(args)
    /\ UNCHANGED <<args, expr, fnName, fnValue, handled, invoked>>

Call_int ==
    /\ called = "" /\ expr = Nil
    /\ called' = "int"
    /\ out' = Handler_int(args)
    /\ UNCHANGED <<args, expr, fnName, fnValue, handled, invoked>>

Call_bool ==
    /\ called = "" /\ expr = Nil
    /\ called' = "bool"
    /\ out' = Handler_bool(args)
    /\ UNCHANGED <<args, expr, fnName, fnValue, handled, invoked>>

Call_float ==
    /\ called = "" /\ expr = Nil
    /\ called' = "float"
    /\ out' = Handler_float(args)
    /\ UNCHANGED <<args, expr, fnName, fnValue, handled, invoked>>

Call_tojson ==
    /\ called = "" /\ expr = Nil
    /\ called' = "tojson"
    /\ \E lib \in LibOutcomes : out' = Handler_tojson(args, lib)
    /\ UNCHANGED <<args, expr, fnName, fnValue, handled, invoked>>

Call_json ==
    /\ called = "" /\ expr = Nil
    /\ called' = "json"
    /\ \E lib \in LibOutcomes : out' = Handler_json(args, lib)
    /\ UNCHANGED <<args, expr, fnName, fnValue, handled, invoked>>

Call_toyaml ==
    /\ called = "" /\ expr = Nil
    /\ called' = "toyaml"
    /\ \E lib \in LibOutcomes : out' = Handler_toyaml(args, lib)
    /\ UNCHANGED <<args, expr, fnName, fnValue, handled, invoked>>

Call_yaml ==
    /\ called = "" /\ expr = Nil
    /\ called' = "yaml"
    /\ \E lib \in LibOutcomes : out' = Handler_yaml(args, lib)
    /\ UNCHANGED <<args, expr, fnName, fnValue, handled, invoked>>

Call_shellquote ==
    /\ called = "" /\ expr = Nil
    /\ called' = "shellquote"
    /\ out' = Handler_shellquote(args)
    /\ UNCHANGED <<args, expr, fnName, fnValue, handled, invoked>>

Call_shellargs ==
    /\ called = "" /\ expr = Nil
    /\ called' = "shellargs"
    /\ \E lib \in LibOutcomes : out' = Handler_shellargs(args, lib)
    /\ UNCHANGED <<args, expr, fnName, fnValue, handled, invoked>>

Call_trim ==
    /\ called = "" /\ expr = Nil
    /\ called' = "trim"
    /\ out' = Handler_trim(args)
    /\ UNCHANGED <<args, expr, fnName, fnValue, handled, invoked>>

Call_len ==
    /\ called = "" /\ expr = Nil
    /\ called' = "len"
    /\ out' = Handler_len(args)
    /\ UNCHANGED <<args, expr, fnName, fnValue, handled, invoked>>

Call_floor ==
    /\ called = "" /\ expr = Nil
    /\ called' = "floor"
    /\ out' = Handler_floor(args)
    /\ UNCHANGED <<args, expr, fnName, fnValue, handled, invoked>>

Call_ceil ==
    /\ called = "" /\ expr = Nil
    /\ called' = "ceil"
    /\ out' = Handler_ceil(args)
    /\ UNCHANGED <<args, expr, fnName, fnValue, handled, invoked>>

Call_round ==
    /\ called = "" /\ expr = Nil
    /\ called' = "round"
    /\ out' = Handler_round(args)
    /\ UNCHANGED <<args, expr, fnName, fnValue, handled, invoked>>

Call_chunk ==
    /\ called = "" /\ expr = Nil
    /\ called' = "chunk"
    /\ out' = Handler_chunk(args)
    /\ UNCHANGED <<args, expr, fnName, fnValue, handled, invoked>>

Call_at ==
    /\ called = "" /\ expr = Nil
    /\ called' = "at"
    /\ out' = Handler_at(args)
    /\ UNCHANGED <<args, expr, fnName, fnValue, handled, invoked>>

Call_map ==
    /\ called = "" /\ expr = Nil
    /\ called' = "map"
    /\ out' = Handler_map(args)
    /\ UNCHANGED <<args, expr, fnName, fnValue, handled, invoked>>

Call_filter ==
    /\ called = "" /\ expr = Nil
    /\ called' = "filter"
    /\ out' = Handler_filter(args)
    /\ UNCHANGED <<args, expr, fnName, fnValue, handled, invoked>>

Call_eval ==
    /\ called = "" /\ expr = Nil
    /\ called' = "eval"
    /\ out' = Handler_eval(args)
    /\ UNCHANGED <<args, expr, fnName, fnValue, handled, invoked>>

Call_jq ==
    /\ called = "" /\ expr = Nil
    /\ called' = "jq"
    /\ \E lib \in LibOutcomes : out' = Handler_jq(args, lib)
    /\ UNCHANGED <<args, expr, fnName, fnValue, handled, invoked>>

\* One action per cast helper: it is applied to the expression.

Do_CastToString ==
    /\ called = "" /\ expr # Nil
    /\ called' = "CastToString"
    /\ out' = Ok(CastToString(expr))
    /\ UNCHANGED <<args, expr, fnName, fnValue, handled, invoked>>

Do_CastToBool ==
    /\ called = "" /\ expr # Nil
    /\ called' = "CastToBool"
    /\ out' = Ok(CastToBool(expr))
    /\ UNCHANGED <<args, expr, fnName, fnValue, handled, invoked>>

Do_CastToInt ==
    /\ called = "" /\ expr # Nil
    /\ called' = "CastToInt"
    /\ out' = Ok(CastToInt(expr))
    /\ UNCHANGED <<args, expr, fnName, fnValue, handled, invoked>>

Do_CastToFloat ==
    /\ called = "" /\ expr # Nil
    /\ called' = "CastToFloat"
    /\ out' = Ok(CastToFloat(expr))
    /\ UNCHANGED <<args, expr, fnName, fnValue, handled, invoked>>

\* The machine is asked to call a function by name with the arguments.
Machine_Call ==
    /\ called = "" /\ expr = Nil
    /\ called' = "stdMachine.Call"
    /\ \E fn \in Names, lib \in LibOutcomes :
          /\ fnName' = fn
          /\ out' = Return(stdMachine_Call(fn, args, lib).val,
                           stdMachine_Call(fn, args, lib).err)
          /\ handled' = stdMachine_Call(fn, args, lib).ok
    /\ invoked' = handled'
    /\ UNCHANGED <<args, expr, fnValue>>

\* The machine is asked for a variable by name.
Machine_Get ==
    /\ called = "" /\ expr = Nil /\ args = <<>>
    /\ called' = "stdMachine.Get"
    /\ \E fn \in Names :
          /\ fnName' = fn
          /\ out' = Return(stdMachine_Get(fn).val, stdMachine_Get(fn).err)
          /\ handled' = stdMachine_Get(fn).ok
    /\ UNCHANGED <<args, expr, fnValue, invoked>>

\* CallStdFunction is called by name with the arguments in some form.
Do_CallStdFunction ==
    /\ called = "" /\ expr = Nil
    /\ called' = "CallStdFunction"
    /\ \E fn \in DirectNames, lib \in LibOutcomes,
          form \in {"static", "raw"}, bad \in {0, 1, Len(args)} :
          /\ fnName' = fn
          /\ fnValue' = Items(args, form, bad)
          /\ out' = CallStdFunction(fn, Items(args, form, bad), lib).ret
          /\ invoked' = CallStdFunction(fn, Items(args, form, bad), lib).invoked
    /\ UNCHANGED <<args, expr, handled>>

Next ==
    \/ Call_string \/ Call_list \/ Call_join \/ Call_split
    \/ Call_int \/ Call_bool \/ Call_float
    \/ Call_tojson \/ Call_json \/ Call_toyaml \/ Call_yaml
    \/ Call_shellquote \/ Call_shellargs \/ Call_trim \/ Call_len
    \/ Call_floor \/ Call_ceil \/ Call_round
    \/ Call_chunk \/ Call_at \/ Call_map \/ Call_filter
    \/ Call_eval \/ Call_jq
    \/ Do_CastToString \/ Do_CastToBool \/ Do_CastToInt \/ Do_CastToFloat
    \/ Machine_Call \/ Machine_Get \/ Do_CallStdFunction

Spec == Init /\ [][Next]_vars

---------------------------------------------------------------------------
(* The cast helpers (C1, C2). *)

CastHelpers == {"CastToString", "CastToBool", "CastToInt", "CastToFloat"}

\* the type a helper casts to, and the cast function named after it
TargetType(helper) ==
    CASE helper = "CastToString" -> "string"
      [] helper = "CastToBool" -> "bool"
      [] helper = "CastToInt" -> "int64"
      [] OTHER -> "float64"

TargetCast(helper) ==
    CASE helper = "CastToString" -> Name_string
      [] helper = "CastToBool" -> Name_bool
      [] helper = "CastToInt" -> Name_int
      [] OTHER -> Name_float

ApplyCast(helper, e) ==
    CASE helper = "CastToString" -> CastToString(e)
      [] helper = "CastToBool" -> CastToBool(e)
      [] helper = "CastToInt" -> CastToInt(e)
      [] OTHER -> CastToFloat(e)

\* C1: a cast helper applied to an expression that is not already of its
\* target type returns the call of the cast function named after that type
\* (string, bool, int, float) with the expression as its only argument.
C1_CastWrapsInTargetCall ==
    (called \in CastHelpers /\ Type(expr) # TargetType(called))
        => out.val = newCall(TargetCast(called), <<expr>>)

\* C2: a cast helper returns an expression already of its target type as it
\* is, and applying the helper to its own result changes nothing.
C2_CastNoOpAndIdempotent ==
    called \in CastHelpers
        => /\ Type(expr) = TargetType(called) => out.val = expr
           /\ ApplyCast(called, out.val) = out.val

---------------------------------------------------------------------------
(* at (C3, C4). *)

\* C3: at(v, k) on a sequence v and an integer k returns v[k] when
\* 0 <= k < len(v) and otherwise fails with an out-of-bounds error carrying
\* the length and the index, and no value; a string obeys the same bounds.
C3_AtSequenceBounds ==
    (/\ called = "at" /\ Len(args) = 2
     /\ args[1].kind \in {"slice", "string"}
     /\ args[2].kind = "int")
        => LET k == args[2].n
               n == IF IsSlice(args[1]) THEN Len(args[1].l)
                    ELSE Len(args[1].s)
           IN  IF 0 <= k /\ k < n
               THEN /\ out.err = NoError
                    /\ IsStatic(out.val)
                    /\ IsSlice(args[1]) => out.val.val = args[1].l[k + 1]
               ELSE /\ out.err = MkError("bounds", n, k)
                    /\ out.val = Nil

\* at was called with an index just past the end of a non-empty sequence
C3_Witness ==
    /\ called = "at" /\ Len(args) = 2 /\ IsSlice(args[1])
    /\ args[1].l # <<>>
    /\ args[2] = IntV(Len(args[1].l))
    /\ out.err.kind = "bounds"

\* the keys of a mapping, and the value stored under one of them
KeysOf(m) == {m[i].k : i \in 1..Len(m)}
StoredUnder(m, k) == CHOOSE v \in {m[i].v : i \in {j \in 1..Len(m) : m[j].k = k}} : TRUE

\* C4: at(m, k) on a mapping never fails: it returns the value stored under
\* k when k is a key of m, and none when it is not.
C4_AtMappingNeverFails ==
    (called = "at" /\ Len(args) = 2 /\ IsMap(args[1]))
        => /\ out.err = NoError
           /\ IsString(args[2]) =>
                 out.val = IF args[2].s \in KeysOf(args[1].m)
                           THEN NewValue(StoredUnder(args[1].m, args[2].s))
                           ELSE NewValue(None)

\* at was called on a non-empty mapping with a key it does not hold
C4_Witness ==
    /\ called = "at" /\ Len(args) = 2 /\ IsMap(args[1])
    /\ args[1].m # <<>>
    /\ IsString(args[2]) /\ args[2].s \notin KeysOf(args[1].m)
    /\ out = Ok(NewValue(None))

---------------------------------------------------------------------------
(* chunk (C5). *)

RECURSIVE Flatten(_)
Flatten(cs) == IF cs = <<>> THEN <<>> ELSE Head(cs).l \o Flatten(Tail(cs))

\* C5: chunk(L, n) with n >= 1 returns ceil(len(L)/n) sub-sequences whose
\* concatenation is L, all of n elements except the last, which has between
\* 1 and n; with n <= 0, or a first argument that is not a sequence, chunk
\* fails and returns no value.
C5_ChunkPartition ==
    (called = "chunk" /\ Len(args) = 2)
        => /\ (IsSlice(args[1]) /\ args[2].kind = "int" /\ args[2].n >= 1) =>
                 LET L == args[1].l
                     n == args[2].n
                     cs == out.val.val.l
                 IN  /\ out.err = NoError
                     /\ IsStatic(out.val) /\ IsSlice(out.val.val)
                     /\ Len(cs) = (Len(L) + n - 1) \div n
                     /\ \A i \in 1..Len(cs) : IsSlice(cs[i])
                     /\ Flatten(cs) = L
                     /\ \A i \in 1..(Len(cs) - 1) : Len(cs[i].l) = n
                     /\ cs # <<>> => Len(cs[Len(cs)].l) \in 1..n
           /\ (~IsSlice(args[1]) \/ (args[2].kind = "int" /\ args[2].n <= 0)) =>
                 out.err # NoError /\ out.val = Nil

\* chunk was called on five elements with size two: two pairs and a single
C5_Witness ==
    /\ called = "chunk" /\ Len(args) = 2 /\ IsSlice(args[1])
    /\ Len(args[1].l) = 5 /\ args[2] = IntV(2)
    /\ out.err = NoError
    /\ Len(out.val.val.l) = 3
    /\ Len(out.val.val.l[3].l) = 1

---------------------------------------------------------------------------
(* join and split (C6, C7). *)

\* what join returns for a sequence: the texts of the elements, joined
Joined(l, rest) ==
    NewValue(StrV(Join([i \in 1..Len(l) |-> toString(l[i]).s],
                       IF rest = <<>> THEN <<44>> ELSE toString(rest[1]).s)))

\* C6 as stated: join fails whenever its first argument is not a sequence
\* (a string, a number, a mapping, none) and otherwise returns the elements'
\* texts joined by the separator, "," when none is given.
C6_JoinFailsUnlessSequence ==
    (called = "join" /\ Len(args) \in 1..2)
        => IF IsSlice(args[1])
           THEN out = Ok(Joined(args[1].l, Tail(args)))
           ELSE out.err # NoError /\ out.val = Nil

\* C6 as amended: join fails whenever its first argument is neither a
\* sequence nor none; given none it returns none and no error; given a
\* sequence it returns the elements' texts joined by the separator.
C6_JoinFailsUnlessSequenceOrNone ==
    (called = "join" /\ Len(args) \in 1..2)
        => CASE IsSlice(args[1]) -> out = Ok(Joined(args[1].l, Tail(args)))
             [] IsNone(args[1]) -> out = Ok(NewValue(None))
             [] OTHER -> out.err # NoError /\ out.val = Nil

\* join was called with none and a separator, and returned none
C6_Witness ==
    /\ called = "join" /\ Len(args) = 2 /\ IsNone(args[1])
    /\ out = Ok(NewValue(None))

\* C7: join(split(s, sep), sep) = s for every string s and separator sep,
\* and join(split(s)) = s with the separators left out.
C7_JoinSplitInverse ==
    (/\ called = "split" /\ Len(args) \in 1..2
     /\ \A i \in 1..Len(args) : IsString(args[i]))
        => /\ out.err = NoError
           /\ IsStatic(out.val)
           /\ Handler_join(<<out.val.val>> \o Tail(args)) = Ok(NewValue(args[1]))

\* split cut a string in two or more pieces at a separator of two bytes
C7_Witness ==
    /\ called = "split" /\ Len(args) = 2
    /\ IsString(args[1]) /\ IsString(args[2]) /\ Len(args[2].s) = 2
    /\ out.err = NoError
    /\ Len(out.val.val.l) >= 2
    /\ Handler_join(<<out.val.val, args[2]>>) = Ok(NewValue(args[1]))

---------------------------------------------------------------------------
(* map and filter (C8, C9). *)

\* the scope of element i (counted from 0) of L, and nothing else
Scope(L, i) ==
    << [k |-> Txt_value, v |-> L[i + 1]],
       [k |-> Txt_index, v |-> IntV(i)],
       [k |-> Txt_key, v |-> IntV(i)] >>

\* the source e resolved for element i of L
Element(L, e, i) == Resolve(Compile(e).val, Scope(L, i))

IterationCall(name) ==
    /\ called = name /\ Len(args) = 2
    /\ IsSlice(args[1]) /\ IsString(args[2])
    /\ Compile(args[2].s).err = NoError

\* C8: map(L, e) yields len(L) elements in the order of L, element i being e
\* resolved in a scope of its own that binds _.value to L[i] and _.index and
\* _.key to i; an error resolving any element fails the whole call, which
\* then returns no value.
C8_MapElementwise ==
    IterationCall("map")
        => LET L == args[1].l
               e == args[2].s
           IN  IF \E i \in 0..(Len(L) - 1) : Element(L, e, i).err # NoError
               THEN out.err # NoError /\ out.val = Nil
               ELSE /\ out.err = NoError
                    /\ out.val.node = "call" /\ out.val.name = Name_list
                    /\ Len(out.val.args) = Len(L)
                    /\ \A i \in 0..(Len(L) - 1) :
                          out.val.args[i + 1] = Element(L, e, i).val

\* map was called with _.key * _.index on three elements: list(0,1,4)
C8_Witness ==
    /\ IterationCall("map") /\ args[2].s = Src_keyIndex
    /\ Len(args[1].l) = 3
    /\ out = Ok(newCall(Name_list, <<NewValue(IntV(0)), NewValue(IntV(1)),
                                     NewValue(IntV(4))>>))

\* the elements of L whose flag is set, in the order of L
RECURSIVE Pick(_, _)
Pick(L, keep) ==
    IF L = <<>> THEN <<>>
    ELSE (IF Head(keep) THEN <<Head(L)>> ELSE <<>>)
         \o Pick(Tail(L), Tail(keep))

\* the predicate resolved for element i is a static value read as a boolean
Decided(r) == r.err = NoError /\ IsStatic(r.val) /\ BoolValue(r.val.val).ok

---------------------------------------------------------------------------
(* Argument counts (C10). *)

\* the argument counts each entry of the table accepts
Arity(name) ==
    CASE name \in {"join", "split"} -> {1, 2}
      [] name \in {"int", "bool", "float", "tojson", "toyaml", "json",
                   "yaml", "shellargs", "trim", "len", "floor", "ceil",
                   "round", "eval"} -> {1}
      [] name \in {"chunk", "at", "map", "filter", "jq"} -> {2}
      [] OTHER -> 0..(MaxArgs + 1)

Variadic == {"string", "list", "shellquote"}

\* C10: a function of fixed arity called with another number of arguments
\* returns an error about the count and no value, whatever the arguments
\* are; string, list and shellquote return a value and no error for every
\* number and kind of arguments.
C10_ArityChecked ==
    (called # "" /\ called \notin CastHelpers)
        => /\ Len(args) \notin Arity(called) =>
                 out.err = Errorf("arity") /\ out.val = Nil
           /\ called \in Variadic => out.err = NoError /\ IsStatic(out.val)

\* chunk was called with three arguments and refused them
C10_Witness ==
    /\ called = "chunk" /\ Len(args) = 3
    /\ out = Fail(Errorf("arity"))

---------------------------------------------------------------------------
(* Calls by name (C11). *)

\* the names of the function table, as the table is documented
Documented ==
    { Name_string, Name_list, Name_join, Name_split, Name_int, Name_bool,
      Name_float, Name_tojson, Name_json, Name_toyaml, Name_yaml,
      Name_shellquote, Name_shellargs, Name_trim, Name_len, Name_floor,
      Name_ceil, Name_round, Name_chunk, Name_at, Name_map, Name_filter,
      Name_eval, Name_jq }

\* what the handler of a name returns for the values, for some outcome of
\* the library it calls
HandlerResults(fn, vs) == {Handler(fn, vs, lib) : lib \in LibOutcomes}

\* C11: stdMachine.Call reports handled exactly for the names of the table,
\* then with the handler's result and error as they are, and otherwise
\* returns a nil expression and a nil error; stdMachine.Get reports not
\* found and no error for every name; CallStdFunction returns an error and
\* invokes no handler when the name is not in the table or an argument is
\* an expression that is not a static value.
C11_UnknownNamesAndFailures ==
    /\ called = "stdMachine.Call" =>
          /\ handled = (fnName \in Documented)
          /\ handled => out \in HandlerResults(fnName, args)
          /\ ~handled => out = Ok(Nil)
    /\ called = "stdMachine.Get" => ~handled /\ out = Ok(Nil)
    /\ called = "CallStdFunction" =>
          IF fnName \notin Documented
             \/ \E i \in 1..Len(fnValue) : fnValue[i].form = "expr"
          THEN out.err # NoError /\ out.val = Nil /\ ~invoked
          ELSE /\ invoked
               /\ out \in HandlerResults(fnName,
                              [i \in 1..Len(fnValue) |-> fnValue[i].v])

\* CallStdFunction refused a known function whose last argument, after a
\* static one, was an unresolved expression
C11_Witness ==
    /\ called = "CallStdFunction" /\ fnName \in Documented
    /\ Len(fnValue) >= 2
    /\ fnValue[1].form = "static" /\ fnValue[Len(fnValue)].form = "expr"
    /\ out.err # NoError /\ out.val = Nil /\ ~invoked

====
